---------------------------- MODULE Spec2Model ----------------------------
(***************************************************************************)
(* A model of image/cover/cover_gallery.py: the UsedStore (the name-keyed  *)
(* "used" mapping and its JSON sidecar), the rename engine                 *)
(* (auto_rename_images), the convert engine (convert_heic_to_jpg) and the  *)
(* POST handlers that drive them on the threaded server.                   *)
(*                                                                         *)
(* Text is modelled as it is: a file name is the sequence of its           *)
(* characters, a file's content the sequence of its bytes, the sidecar     *)
(* document the sequence of the JSON tokens json.dumps writes.  A request  *)
(* runs on a worker thread whose position is pc[t]; a handler's check of   *)
(* its input, its work on the folder and its change of the in-memory       *)
(* mapping are one step, and UsedStore._save that follows is the steps     *)
(* dump, open, write (one per chunk) and replace, the places where the     *)
(* operating system lets another thread or an interruption in.             *)
(***************************************************************************)
EXTENDS Integers, Sequences, FiniteSets, TLC

(***************************************************************************)
(* Bounds of the model.                                                    *)
(***************************************************************************)
\* worker threads of the threaded server that may run requests at once
NumThreads == 2
\* the clock readings a mark may see are 0..MaxTime
MaxTime == 1
\* tokens one write() system call carries to the temporary file
ChunkLen == 8
\* pairs in a rename map handed directly to apply_renames
MaxPairs == 2
\* how far past NumLimit the numbers of a rename pass are followed
MaxOverrun == 3

(***************************************************************************)
(* Program constants.                                                      *)
(***************************************************************************)
\* _is_simple_number_name: len(base) > 6
MaxDigits == 6
\* auto_rename_images: 0 <= num < 1_000_000
NumLimit == 1000000
\* _unique_path: for i in range(1, 10_000)
UniqueLimit == 10000
\* f.read(64) in convert_heic_to_jpg
HeaderLen == 64

VARIABLES
    used,       \* UsedStore._used: the dict filename -> marked_at
    live,       \* the sidecar file at used_file
    tmp,        \* the temporary file used_file + ".tmp"
    files,      \* the regular files of the managed folder: name -> bytes
    originals,  \* the files of the .originals/ subdirectory: name -> bytes
    origDir,    \* whether .originals/ exists
    pc,         \* each worker's position
    call,       \* each worker's current call and its arguments
    pre,        \* what each worker's call found when it began
    res,        \* each worker's result or response
    payload,    \* _save's serialized document, per worker
    hnd,        \* which file each worker's open handle now refers to
    woff        \* the write offset of each worker's handle

vars == <<used, live, tmp, files, originals, origDir,
          pc, call, pre, res, payload, hnd, woff>>

storeVars == <<used, live, tmp>>
folderVars == <<files, originals, origDir>>

Workers == 1..NumThreads
\* the worker that serves the requests when they come one at a time
MainThread == CHOOSE t \in Workers : \A u \in Workers : t <= u

(***************************************************************************)
(* Characters and strings.                                                 *)
(***************************************************************************)
DigitChars == <<"0", "1", "2", "3", "4", "5", "6", "7", "8", "9">>
UpperChars == <<"A", "B", "C", "D", "E", "F", "G", "H", "I", "J", "K", "L", "M",
                "N", "O", "P", "Q", "R", "S", "T", "U", "V", "W", "X", "Y", "Z">>
LowerChars == <<"a", "b", "c", "d", "e", "f", "g", "h", "i", "j", "k", "l", "m",
                "n", "o", "p", "q", "r", "s", "t", "u", "v", "w", "x", "y", "z">>
\* U+00B2 SUPERSCRIPT TWO: str.isdigit() accepts it, int() does not
SuperTwo == "^2"
\* the characters in code point order
CodeOrder == <<".", "/">> \o DigitChars \o UpperChars \o <<"_">> \o LowerChars \o <<SuperTwo>>

Range(s) == {s[i] : i \in 1..Len(s)}
IndexOf(s, c) == CHOOSE i \in 1..Len(s) : s[i] = c
Ord(c) == IndexOf(CodeOrder, c)
Min(a, b) == IF a < b THEN a ELSE b

\* str.lower()
LowerChar(c) == IF c \in Range(UpperChars) THEN LowerChars[IndexOf(UpperChars, c)] ELSE c
Lower(s) == [i \in 1..Len(s) |-> LowerChar(s[i])]

\* a < b and a <= b for Python strings (code point order)
StrLess(a, b) ==
    \/ Len(a) < Len(b) /\ SubSeq(b, 1, Len(a)) = a
    \/ \E k \in 1..Min(Len(a), Len(b)) :
          /\ SubSeq(a, 1, k - 1) = SubSeq(b, 1, k - 1)
          /\ Ord(a[k]) < Ord(b[k])
StrLeq(a, b) == a = b \/ StrLess(a, b)

\* str.isdigit(): not empty and every character a digit
IsDigitStr(s) == Len(s) > 0 /\ \A i \in 1..Len(s) : s[i] \in Range(DigitChars) \cup {SuperTwo}
\* whether int(s) returns (it raises ValueError on a digit that is not a decimal)
IntParses(s) == Len(s) > 0 /\ \A i \in 1..Len(s) : s[i] \in Range(DigitChars)
RECURSIVE IntOf(_)
IntOf(s) ==
    IF Len(s) = 0 THEN 0
    ELSE 10 * IntOf(SubSeq(s, 1, Len(s) - 1)) + (IndexOf(DigitChars, s[Len(s)]) - 1)
\* f"{n}" for n >= 0
RECURSIVE Str(_)
Str(n) == IF n < 10 THEN <<DigitChars[n + 1]>> ELSE Str(n \div 10) \o <<DigitChars[(n % 10) + 1]>>

(***************************************************************************)
(* pathlib: suffix and stem of a bare name.                                *)
(***************************************************************************)
RECURSIVE RFindDot(_, _)
\* name.rfind("."), looking from position i down; 0 when there is no dot
RFindDot(name, i) ==
    IF i = 0 THEN 0
    ELSE IF name[i] = "." THEN i
    ELSE RFindDot(name, i - 1)
\* PurePath.suffix: from the last dot, unless that dot is first or last
Suffix(name) ==
    LET dot == RFindDot(name, Len(name))
    IN  IF 1 < dot /\ dot < Len(name) THEN SubSeq(name, dot, Len(name)) ELSE <<>>
Stem(name) == SubSeq(name, 1, Len(name) - Len(Suffix(name)))

(***************************************************************************)
(* The dict UsedStore._used: a function from its keys to their marked_at.  *)
(* (Python keeps the keys in insertion order as well; only the order of    *)
(* the entries in the document json.dumps writes depends on it, nothing    *)
(* that is read back does, and the model writes the entries in name        *)
(* order.)                                                                 *)
(***************************************************************************)
EmptyDict == [k \in {} |-> <<>>]
Keys(d) == DOMAIN d
HasKey(d, k) == k \in DOMAIN d
DictGet(d, k) == d[k]
\* d[k] = v
DictSet(d, k, v) == [x \in DOMAIN d \cup {k} |-> IF x = k THEN v ELSE d[x]]
\* d.pop(k, None)
DictPop(d, k) == [x \in DOMAIN d \ {k} |-> d[x]]
\* d1 == d2 for dicts: the same keys with the same values
DictEq(d1, d2) ==
    /\ Keys(d1) = Keys(d2)
    /\ \A k \in Keys(d1) : DictGet(d1, k) = DictGet(d2, k)

\* _utc_now_iso(): the ISO text of a clock reading
UtcNowIso(now) == <<"T">> \o Str(now)
Times == 0..MaxTime

\* UsedStore.is_used
IsUsedIn(d, filename) == HasKey(d, filename)
is_used(filename) == IsUsedIn(used, filename)

(***************************************************************************)
(* The sidecar document: json.dumps({"version": 1, "used": ...}) as the    *)
(* sequence of its tokens, and json.loads of such a sequence.  A string    *)
(* token is its text between quotes; the other tokens are punctuation and  *)
(* the number.                                                             *)
(***************************************************************************)
Quote(s) == <<"\"">> \o s \o <<"\"">>
IsQuoted(tok) == Len(tok) >= 2 /\ tok[1] = "\"" /\ tok[Len(tok)] = "\""
Unquote(tok) == SubSeq(tok, 2, Len(tok) - 1)
OpenBrace == <<"{">>
CloseBrace == <<"}">>
KeyVersion == Quote(<<"version">>)
KeyUsed == Quote(<<"used">>)
KeyMarkedAt == Quote(<<"marked_at">>)
\* what a hole left by a write past the end of a file reads as
NulToken == <<"NUL">>

EntryTokens(k, v) == <<Quote(k), OpenBrace, KeyMarkedAt, Quote(v), CloseBrace>>
EntryLen == Len(EntryTokens(<<>>, <<>>))
HeadTokens == <<OpenBrace, KeyVersion, <<"1">>, KeyUsed, OpenBrace>>
TailTokens == <<CloseBrace, CloseBrace>>

\* the key that comes first among the keys S
FirstKey(S) == CHOOSE k \in S : \A x \in S : StrLeq(k, x)
RECURSIVE DumpEntries(_, _)
\* the entries of d under the keys S, one after the other
DumpEntries(d, S) ==
    IF S = {} THEN <<>>
    ELSE EntryTokens(FirstKey(S), d[FirstKey(S)]) \o DumpEntries(d, S \ {FirstKey(S)})
\* a serializer that loses an entry
DumpsDropsOne(d) ==
    HeadTokens \o DumpEntries(d, IF Keys(d) = {} THEN {} ELSE Keys(d) \ {FirstKey(Keys(d))})
               \o TailTokens
\* json.dumps(payload, ensure_ascii=False, indent=2) + "\n"
Dumps(d) == HeadTokens \o DumpEntries(d, Keys(d)) \o TailTokens

BodyOf(doc) == SubSeq(doc, Len(HeadTokens) + 1, Len(doc) - Len(TailTokens))
EntryAt(body, i) == SubSeq(body, EntryLen * (i - 1) + 1, EntryLen * i)
IsEntryTokens(g) ==
    /\ IsQuoted(g[1])
    /\ g[2] = OpenBrace
    /\ g[3] = KeyMarkedAt
    /\ IsQuoted(g[4])
    /\ g[5] = CloseBrace
\* whether json.loads accepts the document (a whole document of the shape _save writes)
ParseOk(doc) ==
    /\ Len(doc) >= Len(HeadTokens) + Len(TailTokens)
    /\ SubSeq(doc, 1, Len(HeadTokens)) = HeadTokens
    /\ SubSeq(doc, Len(doc) - Len(TailTokens) + 1, Len(doc)) = TailTokens
    /\ Len(BodyOf(doc)) % EntryLen = 0
    /\ \A i \in 1..(Len(BodyOf(doc)) \div EntryLen) : IsEntryTokens(EntryAt(BodyOf(doc), i))
RECURSIVE LoadEntriesKeyAsValue(_, _)
\* a loader that takes each record's value from the wrong token
LoadEntriesKeyAsValue(body, d) ==
    IF Len(body) = 0 THEN d
    ELSE LoadEntriesKeyAsValue(SubSeq(body, EntryLen + 1, Len(body)),
                               DictSet(d, Unquote(body[1]), Unquote(body[3])))
RECURSIVE LoadEntries(_, _)
\* the dict json.loads builds: a repeated key keeps its last value
LoadEntries(body, d) ==
    IF Len(body) = 0 THEN d
    ELSE LoadEntries(SubSeq(body, EntryLen + 1, Len(body)),
                     DictSet(d, Unquote(body[1]), Unquote(body[4])))
\* data.get("used", {}) of the parsed document
ParsedUsed(doc) == LoadEntries(BodyOf(doc), EmptyDict)

\* a file: whether it exists, and its tokens
NoFile == [exists |-> FALSE, data |-> <<>>]
FileOf(doc) == [exists |-> TRUE, data |-> doc]

\* UsedStore._load
Load(f) ==
    IF ~f.exists THEN EmptyDict
    ELSE IF ParseOk(f.data) THEN ParsedUsed(f.data)
    ELSE EmptyDict

(***************************************************************************)
(* UsedStore.mark and UsedStore.apply_renames on the dict.                 *)
(***************************************************************************)
\* mark as a toggle: the flag is not looked at
MarkResultToggle(d, filename, flag, now) ==
    IF ~HasKey(d, filename) THEN DictSet(d, filename, UtcNowIso(now))
    ELSE DictPop(d, filename)
MarkResult(d, filename, flag, now) ==
    IF flag THEN DictSet(d, filename, UtcNowIso(now))
    ELSE DictPop(d, filename)

Pair(old, new) == [old |-> old, new |-> new]
RECURSIVE ApplyRenamesFromCopy(_, _, _, _)
\* apply_renames that copies the record to the new name and leaves the old one
ApplyRenamesFromCopy(d, updated, renames, i) ==
    IF i > Len(renames) THEN [used |-> d, updated |-> updated]
    ELSE LET old == renames[i].old
             new == renames[i].new
         IN  IF old = new THEN ApplyRenamesFromCopy(d, updated, renames, i + 1)
             ELSE IF ~HasKey(d, old) THEN ApplyRenamesFromCopy(d, updated, renames, i + 1)
             ELSE IF HasKey(d, new)
                  THEN ApplyRenamesFromCopy(DictPop(d, old), TRUE, renames, i + 1)
             ELSE ApplyRenamesFromCopy(DictSet(d, new, DictGet(d, old)), TRUE, renames, i + 1)
RECURSIVE ApplyRenamesFromOverwrite(_, _, _, _)
\* apply_renames that lets the source's record overwrite the destination's
ApplyRenamesFromOverwrite(d, updated, renames, i) ==
    IF i > Len(renames) THEN [used |-> d, updated |-> updated]
    ELSE LET old == renames[i].old
             new == renames[i].new
         IN  IF old = new THEN ApplyRenamesFromOverwrite(d, updated, renames, i + 1)
             ELSE IF ~HasKey(d, old) THEN ApplyRenamesFromOverwrite(d, updated, renames, i + 1)
             ELSE ApplyRenamesFromOverwrite(DictSet(DictPop(d, old), new, DictGet(d, old)),
                                            TRUE, renames, i + 1)
RECURSIVE ApplyRenamesFrom(_, _, _, _)
\* the loop of apply_renames from pair i on, with the dict d and the flag updated
ApplyRenamesFrom(d, updated, renames, i) ==
    IF i > Len(renames) THEN [used |-> d, updated |-> updated]
    ELSE LET old == renames[i].old
             new == renames[i].new
         IN  IF old = new THEN ApplyRenamesFrom(d, updated, renames, i + 1)
             ELSE IF ~HasKey(d, old) THEN ApplyRenamesFrom(d, updated, renames, i + 1)
             ELSE IF HasKey(d, new)
                  THEN ApplyRenamesFrom(DictPop(d, old), TRUE, renames, i + 1)
             ELSE ApplyRenamesFrom(DictSet(DictPop(d, old), new, DictGet(d, old)),
                                   TRUE, renames, i + 1)
\* a caller's remap that is forgotten: the dict is left as it was
ApplyRenamesNone(d, renames) == [used |-> d, updated |-> FALSE]
ApplyRenamesResult(d, renames) == ApplyRenamesFrom(d, FALSE, renames, 1)

(***************************************************************************)
(* The workers.  A call is begun by one step that does the caller's part   *)
(* up to the change of the dict; pre[t] keeps what the call found, res[t]  *)
(* what it answers when it has returned (pc[t] = "ret").                   *)
(***************************************************************************)
EmptyDir == [n \in {} |-> <<>>]
NoCall == [op |-> "none", body |-> "none", name |-> <<>>, flag |-> FALSE,
           renames |-> <<>>, dry |-> FALSE]
NoPre == [used |-> EmptyDict, files |-> EmptyDir, originals |-> EmptyDir]
NoRes == [status |-> 0, raised |-> FALSE, saves |-> 0, applied |-> FALSE,
          max_num |-> 0, renamed |-> <<>>, skipped |-> <<>>,
          output_name |-> <<>>, moved |-> <<>>, detected |-> "none",
          how |-> "none", undo |-> FALSE]
Snapshot == [used |-> used, files |-> files, originals |-> originals]

\* what an exception that leaves the call becomes: do_POST answers 500 for
\* /api/rename and /api/convert and lets it escape for /api/mark
RaisedStatus(op) == IF op \in {"api_rename", "api_convert"} THEN 500 ELSE 0

\* a persist whether or not anything changed
AfterChangeAlways(save) == "dump"
\* where a call goes after its change of the dict: into _save, or back
AfterChange(save) == IF save THEN "dump" ELSE "ret"

(***************************************************************************)
(* Files of the sidecar: write at an offset, as write(2) does.             *)
(***************************************************************************)
WriteAt(data, off, chunk) ==
    LET padded == IF Len(data) < off
                  THEN data \o [i \in 1..(off - Len(data)) |-> NulToken]
                  ELSE data
    IN  SubSeq(padded, 1, off) \o chunk \o SubSeq(padded, off + Len(chunk) + 1, Len(padded))

\* the next chunk write_text hands to the operating system
NextChunk(t) == SubSeq(payload[t], woff[t] + 1, Min(woff[t] + ChunkLen, Len(payload[t])))

\* os.replace(tmp, used_file) seen from the open handles: the inode keeps its handles
HandlesAfterReplace ==
    [u \in Workers |-> IF hnd[u] = "tmp" THEN "live"
                       ELSE IF hnd[u] = "live" THEN "orphan"
                       ELSE hnd[u]]

(***************************************************************************)
(* UsedStore._save, step by step.                                          *)
(***************************************************************************)
\* payload = {"version": 1, "used": self._used}; json.dumps(payload, ...)
SaveDump(t) ==
    /\ pc[t] = "dump"
    /\ payload' = [payload EXCEPT ![t] = Dumps(used)]
    /\ pc' = [pc EXCEPT ![t] = "open"]
    /\ UNCHANGED <<storeVars, folderVars, call, pre, res, hnd, woff>>

\* tmp.write_text: open(tmp, "w") creates the file or truncates it
SaveOpen(t) ==
    /\ pc[t] = "open"
    /\ tmp' = FileOf(<<>>)
    /\ hnd' = [hnd EXCEPT ![t] = "tmp"]
    /\ woff' = [woff EXCEPT ![t] = 0]
    /\ pc' = [pc EXCEPT ![t] = "write"]
    /\ UNCHANGED <<used, live, folderVars, call, pre, res, payload>>

\* tmp.write_text: one write of the next chunk; the last one is followed by close
SaveWrite(t) ==
    /\ pc[t] = "write"
    /\ LET chunk == NextChunk(t)
           end == woff[t] + Len(chunk)
       IN  /\ tmp' = IF hnd[t] = "tmp" THEN FileOf(WriteAt(tmp.data, woff[t], chunk)) ELSE tmp
           /\ live' = IF hnd[t] = "live" THEN FileOf(WriteAt(live.data, woff[t], chunk)) ELSE live
           /\ IF end = Len(payload[t])
              THEN /\ hnd' = [hnd EXCEPT ![t] = "none"]
                   /\ woff' = [woff EXCEPT ![t] = 0]
                   /\ pc' = [pc EXCEPT ![t] = "replace"]
              ELSE /\ woff' = [woff EXCEPT ![t] = end]
                   /\ UNCHANGED <<hnd, pc>>
    /\ UNCHANGED <<used, folderVars, call, pre, res, payload>>

\* os.replace(tmp, self.used_file): FileNotFoundError when tmp is gone
SaveReplace(t) ==
    /\ pc[t] = "replace"
    /\ IF tmp.exists
       THEN /\ live' = tmp
            /\ tmp' = NoFile
            /\ hnd' = HandlesAfterReplace
            /\ res' = [res EXCEPT ![t].saves = @ + 1]
       ELSE /\ res' = [res EXCEPT ![t].raised = TRUE, ![t].status = RaisedStatus(call[t].op)]
            /\ UNCHANGED <<live, tmp, hnd>>
    /\ pc' = [pc EXCEPT ![t] = "ret"]
    /\ UNCHANGED <<used, folderVars, call, pre, payload, woff>>

\* the call has returned and its worker is free again
Return(t) ==
    /\ pc[t] = "ret"
    /\ pc' = [pc EXCEPT ![t] = "idle"]
    /\ call' = [call EXCEPT ![t] = NoCall]
    /\ pre' = [pre EXCEPT ![t] = NoPre]
    /\ res' = [res EXCEPT ![t] = NoRes]
    /\ payload' = [payload EXCEPT ![t] = <<>>]
    /\ UNCHANGED <<storeVars, folderVars, hnd, woff>>

Save(t) == SaveDump(t) \/ SaveOpen(t) \/ SaveWrite(t) \/ SaveReplace(t)

(***************************************************************************)
(* The store called directly: mark(filename, used) and                     *)
(* apply_renames(renames).                                                 *)
(***************************************************************************)
CallMark(t, filename, flag, now) ==
    /\ pc[t] = "idle"
    /\ call' = [call EXCEPT ![t] = [NoCall EXCEPT !.op = "mark", !.name = filename,
                                                  !.flag = flag]]
    /\ pre' = [pre EXCEPT ![t] = Snapshot]
    /\ res' = [res EXCEPT ![t] = [NoRes EXCEPT !.applied = TRUE]]
    /\ used' = MarkResult(used, filename, flag, now)
    /\ pc' = [pc EXCEPT ![t] = AfterChange(TRUE)]
    /\ UNCHANGED <<live, tmp, folderVars, payload, hnd, woff>>

CallApplyRenames(t, renames) ==
    /\ pc[t] = "idle"
    /\ call' = [call EXCEPT ![t] = [NoCall EXCEPT !.op = "apply_renames", !.renames = renames]]
    /\ pre' = [pre EXCEPT ![t] = Snapshot]
    /\ LET r == ApplyRenamesResult(used, renames)
       IN  /\ used' = r.used
           /\ res' = [res EXCEPT ![t] = [NoRes EXCEPT !.applied = TRUE]]
           /\ pc' = [pc EXCEPT ![t] = AfterChange(r.updated)]
    /\ UNCHANGED <<live, tmp, folderVars, payload, hnd, woff>>

(***************************************************************************)
(* The names and rename maps the store is called with directly.            *)
(***************************************************************************)
JPG == <<".", "j", "p", "g">>
JPEG == <<".", "j", "p", "e", "g">>
PNG == <<".", "p", "n", "g">>
HEIC == <<".", "h", "e", "i", "c">>
HEIF == <<".", "h", "e", "i", "f">>

StoreNames == {<<"a">> \o HEIC, <<"a">> \o JPG, <<"5">> \o PNG}
PairSet == {Pair(o, n) : o \in StoreNames, n \in StoreNames}
\* a dict old -> new: its items in order, no old twice
RenameMaps ==
    UNION {{m \in [1..n -> PairSet] : \A i, j \in 1..n : i # j => m[i].old # m[j].old}
           : n \in 0..MaxPairs}

InitWorkers ==
    /\ pc = [t \in Workers |-> "idle"]
    /\ call = [t \in Workers |-> NoCall]
    /\ pre = [t \in Workers |-> NoPre]
    /\ res = [t \in Workers |-> NoRes]
    /\ payload = [t \in Workers |-> <<>>]
    /\ hnd = [t \in Workers |-> "none"]
    /\ woff = [t \in Workers |-> 0]

\* UsedStore(used_file) where no sidecar exists yet
InitStore ==
    /\ live = NoFile
    /\ tmp = NoFile
    /\ used = Load(live)
    /\ files = EmptyDir
    /\ originals = EmptyDir
    /\ origDir = FALSE
    /\ InitWorkers

NextStore ==
    \E t \in {MainThread} :
        \/ \E f \in StoreNames, flag \in BOOLEAN, now \in Times :
              (~flag => now = 0) /\ CallMark(t, f, flag, now)
        \/ \E m \in RenameMaps : CallApplyRenames(t, m)
        \/ Save(t)
        \/ Return(t)

\* one caller of the store at a time
SpecStore == InitStore /\ [][NextStore]_vars

(***************************************************************************)
(* UsedStore(used_file) constructed on a sidecar that something else left  *)
(* there: __init__ sets the empty dict and calls _load.                    *)
(***************************************************************************)
OpenBracket == <<"[">>
CloseBracket == <<"]">>
\* the document [] : JSON whose top level is no object
DocArray == <<OpenBracket, CloseBracket>>
\* the document {"version": 1, "used": []} : "used" is no object
DocUsedArray == <<OpenBrace, KeyVersion, <<"1">>, KeyUsed, OpenBracket, CloseBracket, CloseBrace>>
\* whether json.loads returns for the document
JsonValid(doc) == ParseOk(doc) \/ doc = DocArray \/ doc = DocUsedArray
\* the way _load takes through its code
LoadPath(f, readable) ==
    IF ~f.exists THEN "absent"                        \* used_file.exists() is false
    ELSE IF ~readable THEN "io_error"                 \* read_text raises OSError
    ELSE IF ~JsonValid(f.data) THEN "bad_json"        \* json.loads raises
    ELSE IF f.data = DocArray THEN "not_object"       \* data.get raises AttributeError
    ELSE IF f.data = DocUsedArray THEN "used_not_object"  \* isinstance(used, dict) is false
    ELSE "ok"
\* an except clause that catches the decoding error only
LoadRaisesUnlessJsonError(path) == path \in {"io_error", "not_object"}
\* whether an exception leaves _load: "except Exception" catches each of them
LoadRaises(path) == FALSE
\* the dict _load leaves in self._used
LoadFrom(f, readable) ==
    IF LoadPath(f, readable) = "ok" THEN ParsedUsed(f.data) ELSE EmptyDict

\* the mappings of the sidecars found, and the sidecars found
FoundDicts ==
    {EmptyDict,
     DictSet(EmptyDict, <<"a">> \o JPG, UtcNowIso(0)),
     DictSet(DictSet(EmptyDict, <<"a">> \o JPG, UtcNowIso(0)), <<"5">> \o PNG, UtcNowIso(1))}
BrokenDocs ==
    {<<>>, SubSeq(Dumps(DictSet(EmptyDict, <<"a">> \o JPG, UtcNowIso(0))), 1, ChunkLen),
     DocArray, DocUsedArray}
Sidecars == {NoFile} \cup {FileOf(Dumps(d)) : d \in FoundDicts} \cup {FileOf(doc) : doc \in BrokenDocs}

\* the constructor runs: pc[t] = "boot" until it has
Construct(t, readable) ==
    /\ pc[t] = "boot"
    /\ call' = [call EXCEPT ![t] = [NoCall EXCEPT !.op = "init"]]
    /\ pre' = [pre EXCEPT ![t] = Snapshot]
    /\ used' = LoadFrom(live, readable)
    /\ res' = [res EXCEPT ![t] = [NoRes EXCEPT !.how = LoadPath(live, readable),
                                               !.raised = LoadRaises(LoadPath(live, readable))]]
    /\ pc' = [pc EXCEPT ![t] = "ret"]
    /\ UNCHANGED <<live, tmp, folderVars, payload, hnd, woff>>

InitLoad ==
    /\ live \in Sidecars
    /\ tmp = NoFile
    /\ used = EmptyDict
    /\ files = EmptyDir
    /\ originals = EmptyDir
    /\ origDir = FALSE
    /\ pc = [t \in Workers |-> IF t = MainThread THEN "boot" ELSE "idle"]
    /\ call = [t \in Workers |-> NoCall]
    /\ pre = [t \in Workers |-> NoPre]
    /\ res = [t \in Workers |-> NoRes]
    /\ payload = [t \in Workers |-> <<>>]
    /\ hnd = [t \in Workers |-> "none"]
    /\ woff = [t \in Workers |-> 0]

\* the store constructed on the sidecar found, then marked
NextLoad ==
    \E t \in {MainThread} :
        \/ \E readable \in BOOLEAN : Construct(t, readable)
        \/ \E f \in StoreNames, flag \in BOOLEAN, now \in Times :
              (~flag => now = 0) /\ CallMark(t, f, flag, now)
        \/ Save(t)
        \/ Return(t)

SpecLoad == InitLoad /\ [][NextLoad]_vars

(***************************************************************************)
(* sniff_image_format on the leading bytes of a file.                      *)
(***************************************************************************)
StartsWith(b, magic) == Len(b) >= Len(magic) /\ SubSeq(b, 1, Len(magic)) = magic
\* header[i:j] of Python: bytes i+1..j, cut at the end of the buffer
Slice(b, i, j) == SubSeq(b, i + 1, Min(j, Len(b)))
\* f.read(n)
ReadHead(b, n) == SubSeq(b, 1, Min(n, Len(b)))

MagicJpeg == <<255, 216, 255>>
MagicPng == <<137, 80, 78, 71, 13, 10, 26, 10>>
MagicGif87 == <<71, 73, 70, 56, 55, 97>>
MagicGif89 == <<71, 73, 70, 56, 57, 97>>
MagicBmp == <<66, 77>>
MagicRiff == <<82, 73, 70, 70>>
MagicWebp == <<87, 69, 66, 80>>
MagicFtyp == <<102, 116, 121, 112>>
BrandsHeic == {<<104, 101, 105, 99>>, <<104, 101, 105, 120>>,
               <<104, 101, 118, 99>>, <<104, 101, 118, 120>>}
BrandsHeif == {<<109, 105, 102, 49>>, <<109, 115, 102, 49>>, <<104, 101, 105, 102>>}

\* a classifier that looks for the ftyp box before the other signatures
SniffFtypFirst(header) ==
    IF Len(header) >= 12 /\ Slice(header, 4, 8) = MagicFtyp
            /\ Slice(header, 8, 12) \in BrandsHeic THEN "heic"
    ELSE IF Len(header) >= 12 /\ Slice(header, 4, 8) = MagicFtyp
            /\ Slice(header, 8, 12) \in BrandsHeif THEN "heif"
    ELSE IF StartsWith(header, MagicJpeg) THEN "jpeg"
    ELSE IF StartsWith(header, MagicPng) THEN "png"
    ELSE IF StartsWith(header, MagicGif87) \/ StartsWith(header, MagicGif89) THEN "gif"
    ELSE IF StartsWith(header, MagicBmp) THEN "bmp"
    ELSE IF StartsWith(header, MagicRiff) /\ Len(header) >= 12
            /\ Slice(header, 8, 12) = MagicWebp THEN "webp"
    ELSE "unknown"
sniff_image_format(header) ==
    IF StartsWith(header, MagicJpeg) THEN "jpeg"
    ELSE IF StartsWith(header, MagicPng) THEN "png"
    ELSE IF StartsWith(header, MagicGif87) \/ StartsWith(header, MagicGif89) THEN "gif"
    ELSE IF StartsWith(header, MagicBmp) THEN "bmp"
    ELSE IF StartsWith(header, MagicRiff) /\ Len(header) >= 12
            /\ Slice(header, 8, 12) = MagicWebp THEN "webp"
    ELSE IF Len(header) >= 12 /\ Slice(header, 4, 8) = MagicFtyp
            /\ Slice(header, 8, 12) \in BrandsHeic THEN "heic"
    ELSE IF Len(header) >= 12 /\ Slice(header, 4, 8) = MagicFtyp
            /\ Slice(header, 8, 12) \in BrandsHeif THEN "heif"
    ELSE "unknown"

(***************************************************************************)
(* A directory: the names of its files and their bytes.                    *)
(***************************************************************************)
GIF == <<".", "g", "i", "f">>
BMP == <<".", "b", "m", "p">>
WEBP == <<".", "w", "e", "b", "p">>
IMAGE_EXTS == {JPG, JPEG, PNG, GIF, BMP, WEBP, HEIF, HEIC}
JpgExts == {JPG, JPEG}

Exists(dir, n) == n \in DOMAIN dir
Put(dir, n, bytes) == [m \in DOMAIN dir \cup {n} |-> IF m = n THEN bytes ELSE dir[m]]
Remove(dir, n) == [m \in DOMAIN dir \ {n} |-> dir[m]]
\* os.replace(src, dst) inside one directory
MoveIn(dir, src, dst) == Put(Remove(dir, src), dst, dir[src])

\* p.is_file() and p.suffix.lower() in IMAGE_EXTS
IsImageName(n) == Lower(Suffix(n)) \in IMAGE_EXTS
Images(dir) == {n \in DOMAIN dir : IsImageName(n)}

(***************************************************************************)
(* auto_rename_images.                                                     *)
(***************************************************************************)
_is_simple_number_name(n) ==
    IF ~IsDigitStr(Stem(n)) THEN FALSE
    ELSE IF Len(Stem(n)) > MaxDigits THEN FALSE
    ELSE TRUE

\* the numbers the first loop looks at
CountedNums(dir) ==
    {IntOf(Stem(n)) : n \in {m \in Images(dir) :
        /\ IsDigitStr(Stem(m))
        /\ IntParses(Stem(m))
        /\ 0 <= IntOf(Stem(m))
        /\ IntOf(Stem(m)) < NumLimit}}
MaxOf(S) == IF S = {} THEN 0 ELSE CHOOSE x \in S : \A y \in S : y <= x
MaxNum(dir) == MaxOf(CountedNums(dir) \cup {0})

\* sorted(images, key=lambda p: p.name.lower()): iterdir() gives the names in any
\* order and the sort is stable, so names equal in lower case may come either way
SortedOrders(S) ==
    {o \in [1..Cardinality(S) -> S] :
        /\ \A i, j \in 1..Cardinality(S) : i # j => o[i] # o[j]
        /\ \A i, j \in 1..Cardinality(S) : i < j => StrLeq(Lower(o[i]), Lower(o[j]))}

\* a target that is taken without a look at the directory
NextFreeNoProbe(dir, n, ext) == n
RECURSIVE NextFree(_, _, _)
\* while (folder / f"{next_num}{ext}").exists(): next_num += 1
NextFree(dir, n, ext) == IF Exists(dir, Str(n) \o ext) THEN NextFree(dir, n + 1, ext) ELSE n

RECURSIVE RenameLoop(_, _, _, _, _)
\* the second loop from file i of the order on; st is [dir, next_num, renamed, skipped,
\* raised]; os.replace raises for file number fail of the order (0: for none)
RenameLoop(order, i, st, dry_run, fail) ==
    IF i > Len(order) THEN st
    ELSE IF _is_simple_number_name(order[i])
    THEN RenameLoop(order, i + 1, [st EXCEPT !.skipped = Append(@, order[i])], dry_run, fail)
    ELSE LET ext == Suffix(order[i])
             num == NextFree(st.dir, st.next_num, ext)
             new_name == Str(num) \o ext
         IN  IF ~dry_run /\ i = fail
             THEN \* the exception leaves auto_rename_images here
                  [st EXCEPT !.next_num = num, !.raised = TRUE]
             ELSE RenameLoop(order, i + 1,
                             [dir |-> IF dry_run THEN st.dir ELSE MoveIn(st.dir, order[i], new_name),
                              next_num |-> num + 1,
                              renamed |-> Append(st.renamed, Pair(order[i], new_name)),
                              skipped |-> st.skipped,
                              raised |-> FALSE],
                             dry_run, fail)

\* the pass over the folder dir with the images taken in the given order, where
\* os.replace raises for file number fail
RenamePassFailing(dir, order, dry_run, fail) ==
    RenameLoop(order, 1,
               [dir |-> dir, next_num |-> MaxNum(dir) + 1, renamed |-> <<>>, skipped |-> <<>>,
                raised |-> FALSE],
               dry_run, fail)
\* the pass in which every os.replace returns
RenamePass(dir, order, dry_run) == RenamePassFailing(dir, order, dry_run, 0)

\* the model follows the numbers a pass gives out up to NumLimit + MaxOverrun
RenameAllowed(dir, order, dry_run) ==
    RenamePass(dir, order, dry_run).next_num <= NumLimit + MaxOverrun

(***************************************************************************)
(* _unique_path and convert_heic_to_jpg.                                   *)
(***************************************************************************)
Numbered(name, i) == Stem(name) \o <<".">> \o Str(i) \o Suffix(name)
UniqueFound(dir, name) ==
    \/ ~Exists(dir, name)
    \/ \E i \in 1..(UniqueLimit - 1) : ~Exists(dir, Numbered(name, i))
\* a path that is taken as it is, whatever is there
UniquePathOverwrites(dir, name) == name
\* the path _unique_path returns when it returns one
_unique_path(dir, name) ==
    IF ~Exists(dir, name) THEN name
    ELSE Numbered(name, CHOOSE i \in 1..(UniqueLimit - 1) :
                            /\ ~Exists(dir, Numbered(name, i))
                            /\ \A j \in 1..(i - 1) : Exists(dir, Numbered(name, j)))

CONVERTED == <<".", "c", "o", "n", "v", "e", "r", "t", "e", "d">>
ScriptName == <<"c", "o", "n", "v", "e", "r", "t", "_", "h", "e", "i", "c", "_",
                "t", "o", "_", "j", "p", "g", ".", "p", "s", "1">>
\* what the converter script writes for an input: a JPEG made from it
ConverterOutput(bytes) == <<255, 216, 255, 224, bytes[Len(bytes)]>>
ConverterOutcomes == {"ok", "exit_nonzero", "no_output"}

\* every failure answered as a processing failure
ConvertStatusAll500(how) == IF how = "ok" THEN 200 ELSE 500
\* the status do_POST answers for each way convert_heic_to_jpg ends
ConvertStatus(how) ==
    CASE how = "ok" -> 200
      [] how = "missing" -> 404          \* FileNotFoundError(name)
      [] how = "not_image" -> 400        \* ValueError
      [] how = "not_heic" -> 400         \* ValueError
      [] how = "no_unique" -> 500        \* RuntimeError of _unique_path
      [] how = "no_script" -> 500        \* RuntimeError
      [] how = "exit_nonzero" -> 500     \* RuntimeError
      [] how = "no_output" -> 404        \* FileNotFoundError of os.replace

\* convert_heic_to_jpg(folder, store, name) up to its call of apply_renames:
\* how it ends, the folder and .originals/ it leaves, and what it returns
ConvertRun(dir, orig, hasDir, name, outcome, undo) ==
    LET base == Stem(name)
        detected == sniff_image_format(ReadHead(dir[name], HeaderLen))
        isJpg == Lower(Suffix(name)) \in JpgExts
        corrected_ext == IF detected = "heic" THEN HEIC ELSE HEIF
        moved_name == base \o corrected_ext
        moved_path == _unique_path(orig, moved_name)
        \* after the original was moved into .originals/ (the .jpg/.jpeg case)
        dir1 == IF isJpg THEN Remove(dir, name) ELSE dir
        orig1 == IF isJpg THEN Put(orig, moved_path, dir[name]) ELSE orig
        inputBytes == dir[name]
        final_output == base \o JPG
        tmp_output == _unique_path(orig1, base \o CONVERTED \o JPG)
        \* after the converter ran
        wrote == outcome = "ok"
        orig2 == IF wrote THEN Put(orig1, tmp_output, ConverterOutput(inputBytes)) ELSE orig1
        \* the rollback of the except clause
        canRestore == isJpg /\ ~Exists(dir1, name) /\ Exists(orig2, moved_path)
        dirBack == IF canRestore /\ undo THEN Put(dir1, name, orig2[moved_path]) ELSE dir1
        origBack == IF canRestore /\ undo THEN Remove(orig2, moved_path) ELSE orig2
        relocated == IF isJpg THEN moved_path ELSE <<>>
        end(how, d, o, h, out, mv, det) ==
            [how |-> how, dir |-> d, orig |-> o, hasDir |-> h,
             output_name |-> out, moved |-> mv, detected |-> det,
             undo |-> undo /\ how \in {"no_script", "exit_nonzero", "no_output"} /\ mv # <<>>]
    IN  IF ~Exists(dir, name) THEN end("missing", dir, orig, hasDir, <<>>, <<>>, "none")
        ELSE IF ~IsImageName(name) THEN end("not_image", dir, orig, hasDir, <<>>, <<>>, "none")
        ELSE IF detected \notin {"heif", "heic"}
             THEN end("not_heic", dir, orig, hasDir, <<>>, <<>>, detected)
        ELSE IF isJpg /\ ~UniqueFound(orig, moved_name)
             THEN end("no_unique", dir, orig, TRUE, <<>>, <<>>, detected)
        ELSE IF ~UniqueFound(orig1, base \o CONVERTED \o JPG)
             THEN end("no_unique", dir1, orig1, TRUE, <<>>, <<>>, detected)
        ELSE IF ~Exists(dir1, ScriptName)
             THEN end("no_script", dir1, orig1, TRUE, <<>>, relocated, detected)
        ELSE IF outcome # "ok"
             THEN end(outcome, dirBack, origBack, TRUE, <<>>, relocated, detected)
        ELSE end("ok", Put(dir1, final_output, orig2[tmp_output]), Remove(orig2, tmp_output),
                 TRUE, final_output, relocated, detected)

\* a conversion that never tells the store
ConvertRenamesNever(name, run) == <<>>
\* the map convert_heic_to_jpg hands to apply_renames, when it does
ConvertRenames(name, run) ==
    IF run.how = "ok" /\ Lower(Suffix(name)) \notin JpgExts
    THEN <<Pair(name, run.output_name)>>
    ELSE <<>>

(***************************************************************************)
(* _safe_join: the request's name as a relative path under the folder.     *)
(***************************************************************************)
Slash == "/"
DotDot == <<".", ".">>
DotPart == <<".">>
ORIGINALS == <<".", "o", "r", "i", "g", "i", "n", "a", "l", "s">>
RECURSIVE FindSlash(_, _)
\* the position of the first separator of p from i on, Len(p) + 1 when there is none
FindSlash(p, i) ==
    IF i > Len(p) THEN i
    ELSE IF p[i] = Slash THEN i
    ELSE FindSlash(p, i + 1)
RECURSIVE PathParts(_)
\* Path(p).parts without the root: empty components and "." are dropped
PathParts(p) ==
    IF Len(p) = 0 THEN <<>>
    ELSE LET i == FindSlash(p, 1)
             part == SubSeq(p, 1, i - 1)
             rest == PathParts(SubSeq(p, i + 1, Len(p)))
         IN  IF part = <<>> \/ part = DotPart THEN rest ELSE <<part>> \o rest
\* rel.is_absolute()
IsAbsolute(p) == Len(p) > 0 /\ p[1] = Slash
\* whether _safe_join returns: the path is relative and has no ".." component
\* (with no symbolic link in the folder such a path resolves under the root)
SafeJoinOk(p) == ~IsAbsolute(p) /\ \A i \in 1..Len(PathParts(p)) : PathParts(p)[i] # DotDot
\* file_path.exists() and file_path.is_file() for the joined path
IsFileAt(p) ==
    LET parts == PathParts(p)
    IN  \/ Len(parts) = 1 /\ Exists(files, parts[1])
        \/ Len(parts) = 2 /\ parts[1] = ORIGINALS /\ Exists(originals, parts[2])
\* file_path.suffix of the joined path
PathSuffix(p) == Suffix(PathParts(p)[Len(PathParts(p))])

(***************************************************************************)
(* do_POST: /api/mark, /api/rename and /api/convert.                       *)
(***************************************************************************)
\* the bodies a POST /api/mark request may carry
MarkBodies == {"not_json", "not_object", "name_not_string", "used_not_bool", "well_formed"}

HandleMark(t, body, name, flag, now) ==
    /\ pc[t] = "idle"
    /\ call' = [call EXCEPT ![t] = [NoCall EXCEPT !.op = "api_mark", !.body = body,
                                                  !.name = name, !.flag = flag]]
    /\ pre' = [pre EXCEPT ![t] = Snapshot]
    /\ IF body = "not_json"
       THEN \* json.loads raises: 400 "invalid json"
            /\ res' = [res EXCEPT ![t] = [NoRes EXCEPT !.status = 400]]
            /\ pc' = [pc EXCEPT ![t] = "ret"]
            /\ UNCHANGED used
       ELSE IF body = "not_object"
       THEN \* payload.get raises AttributeError, which nothing in do_POST catches
            /\ res' = [res EXCEPT ![t] = [NoRes EXCEPT !.raised = TRUE,
                                                       !.status = RaisedStatus("api_mark")]]
            /\ pc' = [pc EXCEPT ![t] = "ret"]
            /\ UNCHANGED used
       ELSE IF body \in {"name_not_string", "used_not_bool"}
       THEN /\ res' = [res EXCEPT ![t] = [NoRes EXCEPT !.status = 400]]
            /\ pc' = [pc EXCEPT ![t] = "ret"]
            /\ UNCHANGED used
       ELSE IF ~SafeJoinOk(name)
       THEN /\ res' = [res EXCEPT ![t] = [NoRes EXCEPT !.status = 400]]
            /\ pc' = [pc EXCEPT ![t] = "ret"]
            /\ UNCHANGED used
       ELSE IF ~IsFileAt(name)
       THEN /\ res' = [res EXCEPT ![t] = [NoRes EXCEPT !.status = 404]]
            /\ pc' = [pc EXCEPT ![t] = "ret"]
            /\ UNCHANGED used
       ELSE IF Lower(PathSuffix(name)) \notin IMAGE_EXTS
       THEN /\ res' = [res EXCEPT ![t] = [NoRes EXCEPT !.status = 403]]
            /\ pc' = [pc EXCEPT ![t] = "ret"]
            /\ UNCHANGED used
       ELSE /\ res' = [res EXCEPT ![t] = [NoRes EXCEPT !.status = 200, !.applied = TRUE]]
            /\ used' = MarkResult(used, name, flag, now)
            /\ pc' = [pc EXCEPT ![t] = AfterChange(TRUE)]
    /\ UNCHANGED <<live, tmp, folderVars, payload, hnd, woff>>

HandleRename(t, dry_run, order, fail) ==
    /\ pc[t] = "idle"
    /\ RenameAllowed(files, order, dry_run)
    /\ call' = [call EXCEPT ![t] = [NoCall EXCEPT !.op = "api_rename", !.dry = dry_run]]
    /\ pre' = [pre EXCEPT ![t] = Snapshot]
    /\ LET pass == RenamePassFailing(files, order, dry_run, fail)
           r == ApplyRenamesResult(used, pass.renamed)
       IN  /\ files' = pass.dir
           /\ IF pass.raised
              THEN \* store.apply_renames is not reached; do_POST answers 500
                   /\ used' = used
                   /\ res' = [res EXCEPT ![t] = [NoRes EXCEPT !.status = RaisedStatus("api_rename"),
                                                              !.raised = TRUE,
                                                              !.max_num = MaxNum(files),
                                                              !.renamed = pass.renamed,
                                                              !.skipped = pass.skipped]]
                   /\ pc' = [pc EXCEPT ![t] = "ret"]
              ELSE /\ used' = IF dry_run THEN used ELSE r.used
                   /\ res' = [res EXCEPT ![t] = [NoRes EXCEPT !.status = 200,
                                                              !.applied = ~dry_run,
                                                              !.max_num = MaxNum(files),
                                                              !.renamed = pass.renamed,
                                                              !.skipped = pass.skipped]]
                   /\ pc' = [pc EXCEPT ![t] = AfterChange(~dry_run /\ r.updated)]
    /\ UNCHANGED <<live, tmp, originals, origDir, payload, hnd, woff>>

HandleConvert(t, name, outcome, undo) ==
    /\ pc[t] = "idle"
    /\ call' = [call EXCEPT ![t] = [NoCall EXCEPT !.op = "api_convert", !.name = name]]
    /\ pre' = [pre EXCEPT ![t] = Snapshot]
    /\ LET run == ConvertRun(files, originals, origDir, name, outcome, undo)
           renames == ConvertRenames(name, run)
           r == ApplyRenamesResult(used, renames)
       IN  /\ files' = run.dir
           /\ originals' = run.orig
           /\ origDir' = run.hasDir
           /\ used' = r.used
           /\ res' = [res EXCEPT ![t] = [NoRes EXCEPT !.status = ConvertStatus(run.how),
                                                      !.raised = run.how # "ok",
                                                      !.applied = renames # <<>>,
                                                      !.output_name = run.output_name,
                                                      !.moved = run.moved,
                                                      !.detected = run.detected,
                                                      !.how = run.how,
                                                      !.undo = run.undo]]
           /\ pc' = [pc EXCEPT ![t] = AfterChange(r.updated)]
    /\ UNCHANGED <<live, tmp, payload, hnd, woff>>

(***************************************************************************)
(* The folders the server is started on.                                   *)
(***************************************************************************)
HeicBytes(k) == <<0, 0, 0, 24>> \o MagicFtyp \o <<104, 101, 105, 99>> \o <<k>>
HeifBytes(k) == <<0, 0, 0, 24>> \o MagicFtyp \o <<109, 105, 102, 49>> \o <<k>>
JpegBytes(k) == <<255, 216, 255, 225, k>>
PngBytes(k) == MagicPng \o <<k>>
ScriptBytes == <<35>>

File(n, bytes) == [m \in {n} |-> bytes]
Merge(d1, d2) == [m \in DOMAIN d1 \cup DOMAIN d2 |-> IF m \in DOMAIN d1 THEN d1[m] ELSE d2[m]]
Dir3(f1, f2, f3) == Merge(f1, Merge(f2, f3))

Script == File(ScriptName, ScriptBytes)

\* photo.jpg, 5.png, scan.png, and the converter script
FolderPhotos ==
    Merge(Dir3(File(<<"p", "h", "o", "t", "o">> \o JPG, JpegBytes(1)),
               File(<<"5">> \o PNG, PngBytes(2)),
               File(<<"s", "c", "a", "n">> \o PNG, PngBytes(3))),
          Script)
\* img.jpg and img.jpeg, both HEIC inside
FolderMislabeled ==
    Merge(File(<<"i", "m", "g">> \o JPG, HeicBytes(1)),
          File(<<"i", "m", "g">> \o JPEG, HeicBytes(2)))
\* a.heic beside a.jpg
FolderPairs ==
    Dir3(File(<<"a">> \o HEIC, HeicBytes(1)),
         File(<<"a">> \o JPG, JpegBytes(2)),
         Script)
\* b.png that is HEIF inside
FolderLone == Merge(File(<<"b">> \o PNG, HeifBytes(1)), Script)
\* 999999.png, 1000001.jpg and a.jpg: the numbers run past six digits
FolderFull ==
    Dir3(File(<<"9", "9", "9", "9", "9", "9">> \o PNG, PngBytes(1)),
         File(<<"1", "0", "0", "0", "0", "0", "1">> \o JPG, JpegBytes(2)),
         File(<<"a">> \o JPG, JpegBytes(3)))

\* a file whose base name is the one character U+00B2, beside x.heic that is a PNG
FolderSuper ==
    Merge(File(<<SuperTwo>> \o JPG, JpegBytes(1)),
          File(<<"x">> \o HEIC, PngBytes(2)))

\* 0000007.jpg: seven digits, the number 7
FolderPadded == File(<<"0", "0", "0", "0", "0", "0", "7">> \o JPG, JpegBytes(1))

Folders == {FolderPhotos, FolderMislabeled, Merge(FolderMislabeled, Script),
            FolderPairs, FolderLone, FolderFull, FolderSuper, FolderPadded, EmptyDir}
MissingName == <<"n", "o">> \o JPG
RequestNames == DOMAIN files \cup {MissingName}

\* main(): the server started on a folder, with no sidecar yet
Init ==
    /\ files \in Folders
    /\ originals = EmptyDir
    /\ origDir = FALSE
    /\ live = NoFile
    /\ tmp = NoFile
    /\ used = Load(live)
    /\ InitWorkers

\* the path of a file of .originals/ (the first by name), when there is one
SubdirNames ==
    IF DOMAIN originals = {} THEN {}
    ELSE {ORIGINALS \o <<Slash>> \o FirstKey(DOMAIN originals)}
\* the names a POST /api/mark request may carry: the files of the folder, a file
\* that is not there, a file of .originals/ by its path, the empty name, an
\* absolute path and a path with ".."
MarkNames ==
    RequestNames
        \cup SubdirNames
        \cup {<<>>, <<Slash>> \o MissingName, DotDot \o <<Slash>> \o MissingName}
MarkRequest(t) ==
    /\ pc[t] = "idle"
    /\ \E body \in MarkBodies, name \in MarkNames, flag \in BOOLEAN, now \in Times :
          \* a body that is not well formed carries no name and no flag
          /\ body # "well_formed" => name = <<>> /\ ~flag
          \* the clock is read only when the flag is set; the readings are told
          \* apart for the files of the folder only
          /\ (~flag \/ name \notin RequestNames) => now = 0
          /\ HandleMark(t, body, name, flag, now)
RenameRequest(t) ==
    /\ pc[t] = "idle"
    /\ \E dry_run \in BOOLEAN, order \in SortedOrders(Images(files)) :
          HandleRename(t, dry_run, order, 0)
ConvertRequest(t) ==
    /\ pc[t] = "idle"
    /\ \E name \in RequestNames, outcome \in ConverterOutcomes, undo \in BOOLEAN :
          HandleConvert(t, name, outcome, undo)
Request(t) == MarkRequest(t) \/ RenameRequest(t) \/ ConvertRequest(t)

\* the requests served one at a time
Next == \E t \in {MainThread} : Request(t) \/ Save(t) \/ Return(t)

Spec == Init /\ [][Next]_vars

(***************************************************************************)
(* The threaded server: ThreadingHTTPServer gives every request a thread   *)
(* of its own, and the handlers share the one UsedStore with no lock, so   *)
(* the steps of _save of one request interleave with those of another.     *)
(* The process may also be stopped at any step and started again.          *)
(***************************************************************************)
\* the process is interrupted and main() runs again: the threads and their open
\* handles are gone, the files stay, and UsedStore.__init__ loads the sidecar
Restart ==
    /\ used' = Load(live)
    /\ pc' = [t \in Workers |-> "idle"]
    /\ call' = [t \in Workers |-> NoCall]
    /\ pre' = [t \in Workers |-> NoPre]
    /\ res' = [t \in Workers |-> NoRes]
    /\ payload' = [t \in Workers |-> <<>>]
    /\ hnd' = [t \in Workers |-> "none"]
    /\ woff' = [t \in Workers |-> 0]
    /\ UNCHANGED <<live, tmp, folderVars>>

\* the server started on the folder of b.png
InitThreads ==
    /\ files = FolderLone
    /\ originals = EmptyDir
    /\ origDir = FALSE
    /\ live = NoFile
    /\ tmp = NoFile
    /\ used = Load(live)
    /\ InitWorkers

NextThreads ==
    \/ \E t \in Workers : MarkRequest(t) \/ Save(t) \/ Return(t)
    \/ Restart

\* POST /api/mark requests served at once, each on its own thread
SpecThreads == InitThreads /\ [][NextThreads]_vars

(***************************************************************************)
(* What the claims speak of.                                               *)
(***************************************************************************)
\* worker t has returned from a call of operation op
Returned(t, op) == pc[t] = "ret" /\ call[t].op = op
\* no call is under way
Quiescent == \A t \in Workers : pc[t] \in {"idle", "ret"}
\* this step begins a call mark(f, flag), directly or from POST /api/mark
MarkStep(f, flag) ==
    \E t \in Workers :
        /\ pc[t] = "idle"
        /\ call'[t].op \in {"mark", "api_mark"}
        /\ call'[t].name = f
        /\ call'[t].flag = flag
        /\ res'[t].applied
\* this step begins a call apply_renames whose map has a pair onto f / away from f
RenameOntoStep(f) ==
    \E t \in Workers :
        /\ pc[t] = "idle"
        /\ call'[t].op = "apply_renames"
        /\ \E i \in 1..Len(call'[t].renames) :
              call'[t].renames[i].new = f /\ call'[t].renames[i].old # f
RenameAwayStep(f) ==
    \E t \in Workers :
        /\ pc[t] = "idle"
        /\ call'[t].op = "apply_renames"
        /\ \E i \in 1..Len(call'[t].renames) :
              call'[t].renames[i].old = f /\ call'[t].renames[i].new # f
Gains(f) == ~IsUsedIn(used, f) /\ IsUsedIn(used', f)
Loses(f) == IsUsedIn(used, f) /\ ~IsUsedIn(used', f)
\* the sidecar read back as UsedStore._load reads it
OnDisk == Load(live)

(***************************************************************************)
(* C1.  The claim as stated: for every filename f, from an empty store and *)
(* over any sequence of mark and apply_renames calls, is_used(f) is false  *)
(* until mark(f, true) is called and then true until mark(f, false) is     *)
(* called: only a mark of f changes is_used(f).                            *)
(***************************************************************************)
C1_OnlyMarkChangesUsed ==
    /\ \A f \in StoreNames : ~is_used(f)
    /\ [][\A f \in StoreNames :
             /\ Gains(f) => MarkStep(f, TRUE)
             /\ Loses(f) => MarkStep(f, FALSE)]_vars

(***************************************************************************)
(* C1 as amended: is_used(f) is false until mark(f, true) is called or     *)
(* apply_renames is called with a pair that renames another name to f, and *)
(* then true until mark(f, false) is called or apply_renames is called     *)
(* with a pair that renames f to another name.                             *)
(***************************************************************************)
C1_MarkOrRenameChangesUsed ==
    /\ \A f \in StoreNames : ~is_used(f)
    /\ [][\A f \in StoreNames :
             /\ Gains(f) => MarkStep(f, TRUE) \/ RenameOntoStep(f)
             /\ Loses(f) => MarkStep(f, FALSE) \/ RenameAwayStep(f)]_vars

\* an apply_renames call has returned that made a name used which no mark made used
C1_Witness ==
    \E t \in Workers :
        /\ Returned(t, "apply_renames")
        /\ \E f \in StoreNames : is_used(f) /\ ~IsUsedIn(pre[t].used, f)
        /\ \E g \in StoreNames : is_used(g) /\ IsUsedIn(pre[t].used, g)

(***************************************************************************)
(* C2.  Every call mark(f, used) persists before it returns: when it has   *)
(* returned no error was raised, one persist was done, the sidecar parses  *)
(* and its "used" object equals the in-memory mapping, which holds f after *)
(* mark(f, true) and does not after mark(f, false); mark(f, false) of an   *)
(* absent f leaves the mapping as it was.                                  *)
(***************************************************************************)
C2_MarkPersists ==
    \A t \in Workers :
        Returned(t, "mark") =>
            /\ ~res[t].raised
            /\ res[t].saves = 1
            /\ live.exists
            /\ ParseOk(live.data)
            /\ DictEq(OnDisk, used)
            /\ HasKey(OnDisk, call[t].name) = call[t].flag
            /\ is_used(call[t].name) = call[t].flag
            /\ (~call[t].flag /\ ~IsUsedIn(pre[t].used, call[t].name)) => used = pre[t].used

\* mark(f, false) of an absent f has returned, with other names used, and has written
C2_Witness ==
    \E t \in Workers :
        /\ Returned(t, "mark")
        /\ ~call[t].flag
        /\ ~IsUsedIn(pre[t].used, call[t].name)
        /\ Keys(used) # {}
        /\ res[t].saves = 1
        /\ live.exists

(***************************************************************************)
(* C3.  In every reachable state, in the middle of a persist, after a      *)
(* persist that was interrupted, and while several requests are handled    *)
(* at once, the live sidecar, once it exists, holds a complete             *)
(* serialization of a mapping: it parses, and it is the document           *)
(* json.dumps writes for the mapping it parses to.  A partly written       *)
(* document is never at the live path.                                     *)
(***************************************************************************)
C3_LiveSidecarComplete ==
    live.exists =>
        /\ ParseOk(live.data)
        /\ live.data = Dumps(ParsedUsed(live.data))

(***************************************************************************)
(* C4.  apply_renames({a: b}) with a # b, a a key and b not a key: when it *)
(* has returned, b is used, a is not, the record under b is the record     *)
(* that was under a, and every other key is as it was.                     *)
(***************************************************************************)
C4_RenameMovesRecord ==
    \A t \in Workers :
        (/\ Returned(t, "apply_renames")
         /\ Len(call[t].renames) = 1
         /\ call[t].renames[1].old # call[t].renames[1].new
         /\ IsUsedIn(pre[t].used, call[t].renames[1].old)
         /\ ~IsUsedIn(pre[t].used, call[t].renames[1].new))
        => LET a == call[t].renames[1].old
               b == call[t].renames[1].new
           IN  /\ is_used(b)
               /\ ~is_used(a)
               /\ DictGet(used, b) = DictGet(pre[t].used, a)
               /\ Keys(used) \ {b} = Keys(pre[t].used) \ {a}
               /\ \A k \in Keys(used) \ {b} : DictGet(used, k) = DictGet(pre[t].used, k)

\* such a call has returned while another key was in the mapping
C4_Witness ==
    \E t \in Workers :
        /\ Returned(t, "apply_renames")
        /\ Len(call[t].renames) = 1
        /\ call[t].renames[1].old # call[t].renames[1].new
        /\ IsUsedIn(pre[t].used, call[t].renames[1].old)
        /\ ~IsUsedIn(pre[t].used, call[t].renames[1].new)
        /\ \E k \in Keys(pre[t].used) :
              /\ k # call[t].renames[1].old
              /\ DictGet(pre[t].used, k) # DictGet(pre[t].used, call[t].renames[1].old)
        /\ is_used(call[t].renames[1].new)

(***************************************************************************)
(* C5.  apply_renames({a: b}) with a # b and both a and b keys: when it    *)
(* has returned, b is used with the record b had before (no merge), a is   *)
(* not used, and the call did exactly one persist.                         *)
(***************************************************************************)
C5_CollisionKeepsDestination ==
    \A t \in Workers :
        (/\ Returned(t, "apply_renames")
         /\ Len(call[t].renames) = 1
         /\ call[t].renames[1].old # call[t].renames[1].new
         /\ IsUsedIn(pre[t].used, call[t].renames[1].old)
         /\ IsUsedIn(pre[t].used, call[t].renames[1].new))
        => LET a == call[t].renames[1].old
               b == call[t].renames[1].new
           IN  /\ is_used(b)
               /\ DictGet(used, b) = DictGet(pre[t].used, b)
               /\ ~is_used(a)
               /\ res[t].saves = 1
               /\ ~res[t].raised
               /\ DictEq(OnDisk, used)

\* such a call has returned where the two records differed
C5_Witness ==
    \E t \in Workers :
        /\ Returned(t, "apply_renames")
        /\ Len(call[t].renames) = 1
        /\ call[t].renames[1].old # call[t].renames[1].new
        /\ IsUsedIn(pre[t].used, call[t].renames[1].old)
        /\ IsUsedIn(pre[t].used, call[t].renames[1].new)
        /\ DictGet(pre[t].used, call[t].renames[1].old)
              # DictGet(pre[t].used, call[t].renames[1].new)
        /\ res[t].saves = 1

(***************************************************************************)
(* C6.  Persist/load round trip: whenever no call is under way, a fresh    *)
(* UsedStore constructed on the sidecar holds a mapping equal to the       *)
(* writer's in-memory mapping (the same keys with the same marked_at), and *)
(* a sidecar that exists is the serialization of that mapping.             *)
(***************************************************************************)
C6_RoundTrip ==
    Quiescent =>
        /\ DictEq(Load(live), used)
        /\ live.exists => ParseOk(live.data) /\ live.data = Dumps(used)

\* a sidecar with two records of different times has been written and the call returned
C6_Witness ==
    /\ Quiescent
    /\ live.exists
    /\ \E j, k \in Keys(used) : used[j] # used[k]
    /\ Keys(Load(live)) = Keys(used)

C8_FailureRestoresOriginal ==
    \A t \in Workers :
        (/\ Returned(t, "api_convert")
         /\ res[t].raised
         /\ res[t].moved # <<>>
         /\ res[t].undo)
        => /\ Exists(files, call[t].name)
           /\ files[call[t].name] = pre[t].files[call[t].name]

(***************************************************************************)
(* C9.  A successful conversion of a file named <base>.jpg that sniffs as  *)
(* HEIC/HEIF: afterwards <base>.jpg in the managed folder holds the        *)
(* converter's output, .originals/ holds the original bytes under          *)
(* <base>.heic or <base>.heif as sniffed, with .N before the extension     *)
(* when that name was taken, no backup that was there is overwritten,      *)
(* apply_renames is not called, and the used status of <base>.jpg is as    *)
(* before.                                                                 *)
(***************************************************************************)
C9_JpgConvertedInPlace ==
    \A t \in Workers :
        (/\ Returned(t, "api_convert")
         /\ res[t].how = "ok"
         /\ Suffix(call[t].name) = JPG)
        => LET name == call[t].name
               ext == IF res[t].detected = "heic" THEN HEIC ELSE HEIF
               backup == Stem(name) \o ext
           IN  /\ res[t].detected \in {"heic", "heif"}
               /\ res[t].output_name = name
               /\ Exists(files, name)
               /\ files[name] = ConverterOutput(pre[t].files[name])
               /\ Exists(originals, res[t].moved)
               /\ originals[res[t].moved] = pre[t].files[name]
               /\ ~Exists(pre[t].originals, res[t].moved)
               /\ IF ~Exists(pre[t].originals, backup)
                  THEN res[t].moved = backup
                  ELSE \E n \in 1..(UniqueLimit - 1) :
                          /\ res[t].moved = Numbered(backup, n)
                          /\ \A m \in 1..(n - 1) : Exists(pre[t].originals, Numbered(backup, m))
               /\ \A o \in DOMAIN pre[t].originals :
                     Exists(originals, o) /\ originals[o] = pre[t].originals[o]
               /\ ~res[t].applied
               /\ res[t].saves = 0
               /\ used = pre[t].used

\* such a conversion has returned where the backup name was taken and the file was used
C9_Witness ==
    \E t \in Workers :
        /\ Returned(t, "api_convert")
        /\ res[t].how = "ok"
        /\ Suffix(call[t].name) = JPG
        /\ Exists(pre[t].originals, Stem(call[t].name) \o HEIC)
        /\ res[t].moved = Numbered(Stem(call[t].name) \o HEIC, 1)
        /\ is_used(call[t].name)

(***************************************************************************)
(* C10.  A successful conversion of a file whose extension is not          *)
(* .jpg/.jpeg: the output is <base>.jpg in the managed folder, replacing   *)
(* any file already there, and the store is remapped with                  *)
(* {original_name: output_name}: if the original name was used, afterwards *)
(* the output name is used and the original name is not.  If the call      *)
(* fails, the store is unchanged.                                          *)
(***************************************************************************)
C10_ConvertRemapsStore ==
    \A t \in Workers :
        Returned(t, "api_convert") =>
            /\ (res[t].how = "ok" /\ Lower(Suffix(call[t].name)) \notin JpgExts) =>
                  /\ res[t].output_name = Stem(call[t].name) \o JPG
                  /\ Exists(files, res[t].output_name)
                  /\ files[res[t].output_name] = ConverterOutput(pre[t].files[call[t].name])
                  /\ res[t].applied
                  /\ IsUsedIn(pre[t].used, call[t].name) =>
                        /\ is_used(res[t].output_name)
                        /\ ~is_used(call[t].name)
                        /\ res[t].saves = 1
                        /\ DictEq(OnDisk, used)
                  /\ \A k \in Keys(pre[t].used) \ {call[t].name} :
                        is_used(k) /\ DictGet(used, k) = DictGet(pre[t].used, k)
            /\ res[t].raised =>
                  /\ used = pre[t].used
                  /\ res[t].saves = 0

\* such a conversion of a used file has returned, its output put in place of a file
\* that was there
C10_Witness ==
    \E t \in Workers :
        /\ Returned(t, "api_convert")
        /\ res[t].how = "ok"
        /\ Lower(Suffix(call[t].name)) \notin JpgExts
        /\ IsUsedIn(pre[t].used, call[t].name)
        /\ Exists(pre[t].files, res[t].output_name)
        /\ files[res[t].output_name] # pre[t].files[res[t].output_name]
        /\ is_used(res[t].output_name)

(***************************************************************************)
(* C11.  After every successful conversion, whatever the extension of the  *)
(* source file, the original is held in .originals/ and is no longer in    *)
(* the managed folder under an image name that sniffs as HEIC/HEIF.        *)
(***************************************************************************)
C11_OriginalMovedToBackup ==
    \A t \in Workers :
        (Returned(t, "api_convert") /\ res[t].how = "ok") =>
            LET original == pre[t].files[call[t].name]
            IN  /\ \E o \in DOMAIN originals : originals[o] = original
                /\ ~\E n \in Images(files) :
                       /\ files[n] = original
                       /\ sniff_image_format(ReadHead(files[n], HeaderLen)) \in {"heic", "heif"}

(***************************************************************************)
(* C12.  The plan of auto_rename_images: the image files whose base name   *)
(* is purely numeric with at most 6 digits are left untouched and listed   *)
(* in skipped; all other image files are taken in ascending                *)
(* case-insensitive name order and each gets the smallest number, from     *)
(* max_num + 1 on and strictly above the number of the file before it,     *)
(* for which {number}{extension} does not exist in the directory, the      *)
(* extension kept as it is.  For {photo.jpg, 5.png, scan.png} the plan is  *)
(* photo.jpg -> 6.jpg, scan.png -> 7.png, skipped = ["5.png"].             *)
(***************************************************************************)
\* a base name that is a decimal number of at most 6 digits
PurelyNumeric(n) == IntParses(Stem(n)) /\ Len(Stem(n)) <= MaxDigits
RECURSIVE MovesApplied(_, _, _)
\* the directory after the first i renames of the list
MovesApplied(dir, pairs, i) ==
    IF i = 0 THEN dir
    ELSE LET before == MovesApplied(dir, pairs, i - 1)
         IN  MoveIn(before, pairs[i].old, pairs[i].new)
\* the directory as the pass of worker t found it when it chose the i-th target
DirAt(t, i) ==
    IF call[t].dry THEN pre[t].files ELSE MovesApplied(pre[t].files, res[t].renamed, i - 1)
PhotoJpg == <<"p", "h", "o", "t", "o">> \o JPG
ScanPng == <<"s", "c", "a", "n">> \o PNG
FivePng == <<"5">> \o PNG

C12_RenamePlan ==
    \A t \in Workers :
        (Returned(t, "api_rename") /\ ~res[t].raised) =>
            LET imgs == Images(pre[t].files)
                r == res[t].renamed
                sk == res[t].skipped
                num(i) == IntOf(Stem(r[i].new))
                low(i) == IF i = 1 THEN res[t].max_num + 1 ELSE num(i - 1) + 1
            IN  /\ {sk[j] : j \in 1..Len(sk)} = {n \in imgs : PurelyNumeric(n)}
                /\ \A j \in 1..Len(sk) :
                      Exists(files, sk[j]) /\ files[sk[j]] = pre[t].files[sk[j]]
                /\ {r[i].old : i \in 1..Len(r)} = {n \in imgs : ~PurelyNumeric(n)}
                /\ \A i, k \in 1..Len(r) :
                      i < k => r[i].old # r[k].old /\ StrLeq(Lower(r[i].old), Lower(r[k].old))
                /\ \A i \in 1..Len(r) :
                      /\ IntParses(Stem(r[i].new))
                      /\ Stem(r[i].new) = Str(num(i))
                      /\ Suffix(r[i].new) = Suffix(r[i].old)
                      /\ num(i) >= low(i)
                      /\ ~Exists(DirAt(t, i), r[i].new)
                      /\ \A m \in low(i)..(num(i) - 1) :
                            Exists(DirAt(t, i), Str(m) \o Suffix(r[i].old))
                /\ imgs = {PhotoJpg, FivePng, ScanPng} =>
                      /\ r = <<Pair(PhotoJpg, <<"6">> \o JPG), Pair(ScanPng, <<"7">> \o PNG)>>
                      /\ sk = <<FivePng>>

(***************************************************************************)
(* C13.  In one pass of auto_rename_images the target chosen for each      *)
(* renamed file does not exist at the moment it is assigned and the        *)
(* targets are pairwise distinct; a pass that is not a dry run overwrites  *)
(* no file, and the image files after it are as many as before with the    *)
(* same contents.                                                          *)
(***************************************************************************)
C13_NoCollision ==
    \A t \in Workers :
        (Returned(t, "api_rename") /\ ~res[t].raised) =>
            LET r == res[t].renamed
                olds == {r[i].old : i \in 1..Len(r)}
                news == {r[i].new : i \in 1..Len(r)}
            IN  /\ \A i \in 1..Len(r) : ~Exists(DirAt(t, i), r[i].new)
                /\ \A i, k \in 1..Len(r) : i # k => r[i].new # r[k].new
                /\ ~call[t].dry =>
                      /\ DOMAIN files = (DOMAIN pre[t].files \ olds) \cup news
                      /\ Cardinality(Images(files)) = Cardinality(Images(pre[t].files))
                      /\ \A i \in 1..Len(r) : files[r[i].new] = pre[t].files[r[i].old]
                      /\ \A n \in DOMAIN pre[t].files \ olds : files[n] = pre[t].files[n]

\* a pass that is not a dry run has returned that renamed two files beside a numbered one
C13_Witness ==
    \E t \in Workers :
        /\ Returned(t, "api_rename")
        /\ ~call[t].dry
        /\ Len(res[t].renamed) >= 2
        /\ Len(res[t].skipped) >= 1
        /\ \A i \in 1..Len(res[t].renamed) : Exists(files, res[t].renamed[i].new)

(***************************************************************************)
(* C14.  auto_rename_images with dry_run = true changes no file and no     *)
(* store state, and returns the same max_num, the same renamed list and    *)
(* the same skipped list that a pass that is not a dry run returns when    *)
(* started from the same directory content.                                *)
(***************************************************************************)
C14_DryRunSamePlan ==
    \A t \in Workers :
        (Returned(t, "api_rename") /\ call[t].dry /\ ~res[t].raised) =>
            /\ files = pre[t].files
            /\ originals = pre[t].originals
            /\ used = pre[t].used
            /\ res[t].saves = 0
            /\ \E order \in SortedOrders(Images(pre[t].files)) :
                  LET real == RenamePass(pre[t].files, order, FALSE)
                  IN  /\ res[t].max_num = MaxNum(pre[t].files)
                      /\ res[t].renamed = real.renamed
                      /\ res[t].skipped = real.skipped

(***************************************************************************)
(* C15.  The max_num that auto_rename_images computes and reports is the   *)
(* greatest integer value among the image files whose base name is purely  *)
(* numeric, has at most 6 digits and lies in [0, 999999], and 0 when there *)
(* is no such file; the other image files do not contribute.               *)
(***************************************************************************)
C15_MaxNum ==
    \A t \in Workers :
        (Returned(t, "api_rename") /\ ~res[t].raised) =>
            LET counted == {n \in Images(pre[t].files) :
                               /\ PurelyNumeric(n)
                               /\ 0 <= IntOf(Stem(n))
                               /\ IntOf(Stem(n)) <= NumLimit - 1}
            IN  res[t].max_num = MaxOf({IntOf(Stem(n)) : n \in counted} \cup {0})

(***************************************************************************)
(* C16.  In every state reachable through POST /api/mark, /api/rename and  *)
(* /api/convert requests, every key of the UsedStore mapping is a bare     *)
(* filename, with no directory separator or path component (and named a    *)
(* file directly in the managed folder when it was marked).  The formula   *)
(* states the first part, which the claim asserts of every state.          *)
(***************************************************************************)
C16_KeysAreBareNames ==
    \A k \in Keys(used) : \A i \in 1..Len(k) : k[i] # Slash

(***************************************************************************)
(* C17.  POST /api/mark answers 400 for every malformed body (not JSON,    *)
(* JSON that is not an object, name not a string, used not a boolean, a    *)
(* name that is absolute or has ".."), 404 when the named file is absent,  *)
(* 403 when its extension is unsupported, and {ok: true} otherwise; in     *)
(* every case but the last the mapping and the sidecar are unchanged.      *)
(***************************************************************************)
C17_MarkResponses ==
    \A t \in Workers :
        Returned(t, "api_mark") =>
            LET malformed == \/ call[t].body # "well_formed"
                             \/ ~SafeJoinOk(call[t].name)
                absent == ~malformed /\ ~IsFileAt(call[t].name)
                unsupported == /\ ~malformed
                               /\ ~absent
                               /\ Lower(PathSuffix(call[t].name)) \notin IMAGE_EXTS
            IN  /\ malformed => res[t].status = 400
                /\ absent => res[t].status = 404
                /\ unsupported => res[t].status = 403
                /\ ~(malformed \/ absent \/ unsupported) =>
                      res[t].status = 200 /\ res[t].applied /\ ~res[t].raised
                /\ (malformed \/ absent \/ unsupported) =>
                      used = pre[t].used /\ res[t].saves = 0

(***************************************************************************)
(* C18.  convert_heic_to_jpg rejects its input before it touches           *)
(* anything: an absent target is answered 404, a target with an            *)
(* unsupported extension or one that does not sniff as HEIC/HEIF (even if  *)
(* named .heic) is answered 400, a missing converter script or a nonzero   *)
(* exit of the converter is answered 500; in the not-found and             *)
(* invalid-input cases no file is moved or created and the store is        *)
(* unchanged.                                                              *)
(***************************************************************************)
C18_ConvertRejections ==
    \A t \in Workers :
        Returned(t, "api_convert") =>
            LET name == call[t].name
                absent == ~Exists(pre[t].files, name)
                unsupported == ~absent /\ Lower(Suffix(name)) \notin IMAGE_EXTS
                notHeic == /\ ~absent
                           /\ ~unsupported
                           /\ sniff_image_format(ReadHead(pre[t].files[name], HeaderLen))
                                 \notin {"heic", "heif"}
                valid == ~absent /\ ~unsupported /\ ~notHeic
            IN  /\ absent => res[t].status = 404
                /\ unsupported => res[t].status = 400
                /\ notHeic => res[t].status = 400
                /\ (valid /\ ~Exists(pre[t].files, ScriptName)) => res[t].status = 500
                /\ res[t].how = "exit_nonzero" => res[t].status = 500
                /\ (absent \/ unsupported \/ notHeic) =>
                      /\ res[t].raised
                      /\ files = pre[t].files
                      /\ originals = pre[t].originals
                      /\ used = pre[t].used
                      /\ res[t].saves = 0

\* a conversion of a file named .heic that is no HEIC has been rejected
C18_Witness ==
    \E t \in Workers :
        /\ Returned(t, "api_convert")
        /\ Lower(Suffix(call[t].name)) = HEIC
        /\ Exists(files, call[t].name)
        /\ res[t].detected = "png"
        /\ res[t].status = 400
        /\ Keys(used) # {}

C20_OnePersistOrNone ==
    \A t \in Workers :
        Returned(t, "apply_renames") =>
            LET r == call[t].renames
                anyApplies == \E i \in 1..Len(r) :
                                 r[i].old # r[i].new /\ IsUsedIn(pre[t].used, r[i].old)
            IN  /\ anyApplies =>
                      /\ res[t].saves = 1
                      /\ ~res[t].raised
                      /\ live.exists /\ live.data = payload[t]
                      /\ DictEq(OnDisk, used)
                /\ ~anyApplies =>
                      /\ res[t].saves = 0
                      /\ payload[t] = <<>>
                      /\ used = pre[t].used

\* a call with two pairs that both changed the mapping has returned after one persist
C20_Witness ==
    \E t \in Workers :
        /\ Returned(t, "apply_renames")
        /\ Len(call[t].renames) = 2
        /\ \A i \in 1..2 :
              /\ call[t].renames[i].old # call[t].renames[i].new
              /\ IsUsedIn(pre[t].used, call[t].renames[i].old)
              /\ ~IsUsedIn(pre[t].used, call[t].renames[i].new)
        /\ res[t].saves = 1

(***************************************************************************)
(* sniff_image_format called on a buffer.  The buffers are the leading     *)
(* bytes of files that begin like an image of each kind, with and without  *)
(* an ftyp box at offset 4, cut at every length up to MaxHeader.           *)
(***************************************************************************)
\* the longest buffer handed to sniff_image_format
MaxHeader == 13

\* the first four bytes: a box size, and the starts of JPEG, BMP, RIFF, PNG, GIF
SniffPrefixes == {<<0, 0, 0, 24>>, <<255, 216, 255, 224>>, <<66, 77, 0, 0>>,
                  MagicRiff, SubSeq(MagicPng, 1, 4), SubSeq(MagicGif89, 1, 4)}
\* bytes 4..8: "ftyp", and the ends of the PNG and GIF signatures
SniffTypes == {MagicFtyp, SubSeq(MagicPng, 5, 8), <<57, 97, 0, 0>>, <<55, 97, 0, 0>>, <<0, 0, 0, 0>>}
\* bytes 8..12: the brands the function knows, "avif" and "WEBP"
SniffBrands == BrandsHeic \cup BrandsHeif \cup {<<97, 118, 105, 102>>, MagicWebp}
SniffHeaders ==
    {SubSeq(p \o ty \o b \o <<0>>, 1, n) :
        p \in SniffPrefixes, ty \in SniffTypes, b \in SniffBrands, n \in 0..MaxHeader}

\* the name under which the buffer is kept
SniffName == <<"x">> \o HEIC

\* detected = sniff_image_format(header) for the buffer kept under name
CallSniff(t, name) ==
    /\ pc[t] = "idle"
    /\ Exists(files, name)
    /\ call' = [call EXCEPT ![t] = [NoCall EXCEPT !.op = "sniff", !.name = name]]
    /\ pre' = [pre EXCEPT ![t] = Snapshot]
    /\ res' = [res EXCEPT ![t] = [NoRes EXCEPT !.detected = sniff_image_format(files[name])]]
    /\ pc' = [pc EXCEPT ![t] = "ret"]
    /\ UNCHANGED <<storeVars, folderVars, payload, hnd, woff>>

InitSniff ==
    /\ files \in {File(SniffName, h) : h \in SniffHeaders}
    /\ originals = EmptyDir
    /\ origDir = FALSE
    /\ live = NoFile
    /\ tmp = NoFile
    /\ used = EmptyDict
    /\ InitWorkers

NextSniff == \E t \in {MainThread} : CallSniff(t, SniffName) \/ Return(t)

\* sniff_image_format applied to each buffer
SpecSniff == InitSniff /\ [][NextSniff]_vars

\* the buffer of a sniff call, and the signatures it carries
SniffedHeader(t) == pre[t].files[call[t].name]
HasFtyp(h) == Len(h) >= 12 /\ Slice(h, 4, 8) = MagicFtyp
IsGif(h) == StartsWith(h, MagicGif87) \/ StartsWith(h, MagicGif89)
IsBmp(h) == StartsWith(h, MagicBmp)
IsWebp(h) == StartsWith(h, MagicRiff) /\ Len(h) >= 12 /\ Slice(h, 8, 12) = MagicWebp
IsHeicBox(h) == HasFtyp(h) /\ Slice(h, 8, 12) \in BrandsHeic
IsHeifBox(h) == HasFtyp(h) /\ Slice(h, 8, 12) \in BrandsHeif
NoSignature(h) ==
    ~(StartsWith(h, MagicJpeg) \/ StartsWith(h, MagicPng) \/ IsGif(h) \/ IsBmp(h)
      \/ IsWebp(h) \/ IsHeicBox(h) \/ IsHeifBox(h))

(***************************************************************************)
(* C21.  The claim as stated: sniff_image_format answers "jpeg" for every  *)
(* buffer that starts with FF D8 FF, "png" for every buffer that starts    *)
(* with the PNG signature, "heic" for every buffer of at least 12 bytes    *)
(* with "ftyp" at offset 4 and a brand heic/heix/hevc/hevx, "heif" for     *)
(* such a buffer with a brand mif1/msf1/heif, and "unknown" for every      *)
(* buffer that matches no signature.                                       *)
(***************************************************************************)
C21_SniffBySignature ==
    \A t \in Workers :
        Returned(t, "sniff") =>
            LET h == SniffedHeader(t)
                fmt == res[t].detected
            IN  /\ StartsWith(h, MagicJpeg) => fmt = "jpeg"
                /\ StartsWith(h, MagicPng) => fmt = "png"
                /\ IsHeicBox(h) => fmt = "heic"
                /\ IsHeifBox(h) => fmt = "heif"
                /\ NoSignature(h) => fmt = "unknown"

(***************************************************************************)
(* C21 as amended: sniff_image_format answers for the first signature that *)
(* matches, in the order jpeg, png, gif, bmp, webp, ftyp box: "jpeg" for a *)
(* buffer that starts with FF D8 FF, "png" for one that starts with the    *)
(* PNG signature, and "heic" or "heif" for a buffer of at least 12 bytes   *)
(* with "ftyp" at offset 4 and a brand of that family only when the buffer *)
(* does not start with FF D8 FF, the PNG signature, GIF87a, GIF89a or BM;  *)
(* a buffer that matches no signature is "unknown".                        *)
(***************************************************************************)
C21_SniffFirstSignature ==
    \A t \in Workers :
        Returned(t, "sniff") =>
            LET h == SniffedHeader(t)
                fmt == res[t].detected
                earlier == StartsWith(h, MagicJpeg) \/ StartsWith(h, MagicPng)
                               \/ IsGif(h) \/ IsBmp(h)
            IN  /\ StartsWith(h, MagicJpeg) => fmt = "jpeg"
                /\ StartsWith(h, MagicPng) => fmt = "png"
                /\ (IsHeicBox(h) /\ ~earlier) => fmt = "heic"
                /\ (IsHeifBox(h) /\ ~earlier) => fmt = "heif"
                /\ (IsHeicBox(h) /\ IsBmp(h)) => fmt = "bmp"
                /\ NoSignature(h) => fmt = "unknown"
                /\ fmt \in {"heic", "heif"} => HasFtyp(h)

\* a buffer that starts with BM and has an ftyp box of brand heic was classified
C21_Witness ==
    \E t \in Workers :
        /\ Returned(t, "sniff")
        /\ IsBmp(SniffedHeader(t))
        /\ IsHeicBox(SniffedHeader(t))
        /\ res[t].detected = "bmp"

(***************************************************************************)
(* C22.  With POST requests that change the store handled at once on       *)
(* separate threads that share the one UsedStore, every request's persist  *)
(* completes without an error, and whenever no request is in progress the  *)
(* sidecar parses and its "used" object equals the in-memory mapping.      *)
(***************************************************************************)
C22_ConcurrentPersist ==
    /\ \A t \in Workers :
          (pc[t] = "ret" /\ res[t].applied) => ~res[t].raised /\ res[t].saves = 1
    /\ Quiescent => DictEq(OnDisk, used)

(***************************************************************************)
(* POST /api/rename where os.replace may raise for one of the files the    *)
(* pass renames (the file is open elsewhere, the folder is read-only, the  *)
(* disk is full): the exception leaves auto_rename_images at line 219.     *)
(***************************************************************************)
RenameAbortRequest(t) ==
    /\ pc[t] = "idle"
    /\ \E order \in SortedOrders(Images(files)), fail \in 0..Cardinality(Images(files)) :
          /\ fail # 0 => ~_is_simple_number_name(order[fail])
          /\ HandleRename(t, FALSE, order, fail)

\* the server started on a folder with images to rename
InitAbort ==
    /\ files \in {FolderPhotos, FolderPairs, FolderMislabeled}
    /\ originals = EmptyDir
    /\ origDir = FALSE
    /\ live = NoFile
    /\ tmp = NoFile
    /\ used = Load(live)
    /\ InitWorkers

NextAbort ==
    \E t \in {MainThread} : MarkRequest(t) \/ RenameAbortRequest(t) \/ Save(t) \/ Return(t)

\* marks and rename passes, one at a time, where a file move may fail
SpecAbort == InitAbort /\ [][NextAbort]_vars

(***************************************************************************)
(* C23.  When a POST /api/rename pass that is not a dry run has returned,  *)
(* also after os.replace raised part-way, the store is consistent with the *)
(* folder: every file the pass moved that was used before the pass is used *)
(* under its new name, and no key is left under a name whose file the pass *)
(* moved away.                                                             *)
(***************************************************************************)
C23_AbortedPassConsistent ==
    \A t \in Workers :
        (Returned(t, "api_rename") /\ ~call[t].dry) =>
            \A i \in 1..Len(res[t].renamed) :
                LET old == res[t].renamed[i].old
                    new == res[t].renamed[i].new
                IN  /\ IsUsedIn(pre[t].used, old) => is_used(new)
                    /\ ~Exists(files, old) => ~is_used(old)

(***************************************************************************)
(* C24.  After every successful conversion, whatever the extension of the  *)
(* source (a mislabeled .jpeg whose output <base>.jpg has another name     *)
(* included), the output name is used exactly if the original name was     *)
(* used before the call, and the store holds no key for a name that the    *)
(* conversion removed from the managed folder.                             *)
(***************************************************************************)
C24_ConvertKeepsUsedStatus ==
    \A t \in Workers :
        (Returned(t, "api_convert") /\ res[t].how = "ok") =>
            /\ is_used(res[t].output_name) = IsUsedIn(pre[t].used, call[t].name)
            /\ \A k \in Keys(used) : Exists(pre[t].files, k) => Exists(files, k)

(***************************************************************************)
(* C25.  auto_rename_images is idempotent: when a pass that is not a dry   *)
(* run has completed, every image file of the folder has a purely numeric  *)
(* base name of at most 6 digits, and a pass that follows at once renames  *)
(* nothing, moves no file and leaves the store as it is, also for a folder *)
(* whose max_num is at or near 999999.                                     *)
(***************************************************************************)
C25_RenameIdempotent ==
    \A t \in Workers :
        (Returned(t, "api_rename") /\ ~call[t].dry /\ ~res[t].raised) =>
            /\ \A n \in Images(files) : PurelyNumeric(n)
            /\ \A order \in SortedOrders(Images(files)) :
                  LET again == RenamePass(files, order, FALSE)
                  IN  /\ again.renamed = <<>>
                      /\ again.dir = files
                      /\ ApplyRenamesResult(used, again.renamed).used = used

=============================================================================
